---------------------------- MODULE Spec2Model ----------------------------
(***************************************************************************)
(* A model of extensions/extension-editing/src/extensionLinter.ts: the     *)
(* ExtensionLinter class (debounced queues, lint passes, the per-folder    *)
(* PackageJsonInfo cache) and its URL rules (addDiagnostics).              *)
(*                                                                         *)
(* Strings are sequences of one-character strings, so that toLowerCase,    *)
(* indexOf, endsWith and path.posix.dirname are computed as the code       *)
(* computes them.  Offsets are 0-based as in JavaScript.                   *)
(***************************************************************************)
EXTENDS Integers, Sequences, FiniteSets, TLC

(***************************************************************************)
(* String primitives                                                       *)
(***************************************************************************)
UpperChars == <<"A","B","C","D","E","F","G","H","I","J","K","L","M","N","O","P","Q","R","S","T","U","V","W","X","Y","Z">>
LowerChars == <<"a","b","c","d","e","f","g","h","i","j","k","l","m","n","o","p","q","r","s","t","u","v","w","x","y","z">>

\* String.prototype.toLowerCase on one character
LowerChar(c) ==
    IF \E i \in 1..Len(UpperChars) : UpperChars[i] = c
    THEN LowerChars[CHOOSE i \in 1..Len(UpperChars) : UpperChars[i] = c]
    ELSE c

\* String.prototype.toLowerCase
toLowerCase(s) == [i \in 1..Len(s) |-> LowerChar(s[i])]

\* needle occurs in haystack at the 0-based offset k
OccursAt(haystack, needle, k) ==
    /\ k >= 0
    /\ k + Len(needle) <= Len(haystack)
    /\ \A i \in 1..Len(needle) : haystack[k + i] = needle[i]

\* String.prototype.indexOf(needle, from): first offset >= from, or -1
indexOf(haystack, needle, from) ==
    LET start == IF from < 0 THEN 0 ELSE from
        hits  == {k \in start..Len(haystack) : OccursAt(haystack, needle, k)}
    IN  IF hits = {} THEN -1 ELSE CHOOSE k \in hits : \A j \in hits : k <= j

\* endsWith of the source (lines 281-290)
endsWith(haystack, needle) ==
    LET diff == Len(haystack) - Len(needle)
    IN  IF diff > 0 THEN indexOf(haystack, needle, diff) = diff
        ELSE IF diff = 0 THEN haystack = needle
        ELSE FALSE

\* path.posix.dirname restricted to absolute paths with at least one "/"
dirname(p) ==
    LET slashes == {i \in 1..Len(p) : p[i] = "/"}
        last    == CHOOSE i \in slashes : \A j \in slashes : j <= i
    IN  IF slashes = {} THEN <<".">>
        ELSE IF last = 1 THEN <<"/">>
        ELSE SubSeq(p, 1, last - 1)

(***************************************************************************)
(* String literals of the source                                           *)
(***************************************************************************)
StrHttps       == <<"h","t","t","p","s">>
StrData        == <<"d","a","t","a">>
StrDotSvg      == <<".","s","v","g">>
StrPackageJson == <<"/","p","a","c","k","a","g","e",".","j","s","o","n">>
StrReadmeMd    == <<"/","r","e","a","d","m","e",".","m","d">>
StrChangelogMd == <<"/","c","h","a","n","g","e","l","o","g",".","m","d">>

\* the four messages (lines 20-23), named by the issue kind they report
httpsRequired                      == "InsecureScheme"
svgsNotValid                       == "SvgDisallowed"
dataUrlsNotValid                   == "DataUrlForbidden"
relativeUrlRequiresHttpsRepository == "RelativeRequiresSecureRepo"

(***************************************************************************)
(* addDiagnostics (lines 245-268).  uri is the result of Uri.parse(src):   *)
(* a record of scheme, authority and path as the parser returns them       *)
(* (case preserved).  allowed is allowedBadgeProviders (line 16).          *)
(***************************************************************************)
Diagnostic(begin, end, message) == [begin |-> begin, end |-> end, message |-> message]

\* allowedBadgeProviders.indexOf(x) === -1
NotInList(list, x) == \A i \in 1..Len(list) : list[i] # x

\* line 16: the configured providers, lower-cased
LowerAll(list) == [i \in 1..Len(list) |-> toLowerCase(list[i])]

\* addDiagnostics without the exception for data in the first rule
addDiagnostics_NoDataException(diagnostics, begin, end, uri, info, allowed) ==
    LET scheme == toLowerCase(uri.scheme)
        d1 == IF scheme # <<>> /\ scheme # StrHttps
              THEN Append(diagnostics, Diagnostic(begin, end, httpsRequired))
              ELSE diagnostics
        d2 == IF scheme = StrData
              THEN Append(d1, Diagnostic(begin, end, dataUrlsNotValid))
              ELSE d1
        d3 == IF scheme = <<>> /\ ~info.hasHttpsRepository
              THEN Append(d2, Diagnostic(begin, end, relativeUrlRequiresHttpsRepository))
              ELSE d2
        d4 == IF endsWith(toLowerCase(uri.path), StrDotSvg)
                   /\ NotInList(allowed, toLowerCase(uri.authority))
              THEN Append(d3, Diagnostic(begin, end, svgsNotValid))
              ELSE d3
    IN  d4

\* addDiagnostics comparing the path's extension without lower-casing it
addDiagnostics_SvgCaseSensitive(diagnostics, begin, end, uri, info, allowed) ==
    LET scheme == toLowerCase(uri.scheme)
        d1 == IF scheme # <<>> /\ scheme # StrHttps /\ scheme # StrData
              THEN Append(diagnostics, Diagnostic(begin, end, httpsRequired))
              ELSE diagnostics
        d2 == IF scheme = StrData
              THEN Append(d1, Diagnostic(begin, end, dataUrlsNotValid))
              ELSE d1
        d3 == IF scheme = <<>> /\ ~info.hasHttpsRepository
              THEN Append(d2, Diagnostic(begin, end, relativeUrlRequiresHttpsRepository))
              ELSE d2
        d4 == IF endsWith(uri.path, StrDotSvg)
                   /\ NotInList(allowed, toLowerCase(uri.authority))
              THEN Append(d3, Diagnostic(begin, end, svgsNotValid))
              ELSE d3
    IN  d4

\* addDiagnostics with the third rule not asking for an empty scheme
addDiagnostics_RelativeAnyScheme(diagnostics, begin, end, uri, info, allowed) ==
    LET scheme == toLowerCase(uri.scheme)
        d1 == IF scheme # <<>> /\ scheme # StrHttps /\ scheme # StrData
              THEN Append(diagnostics, Diagnostic(begin, end, httpsRequired))
              ELSE diagnostics
        d2 == IF scheme = StrData
              THEN Append(d1, Diagnostic(begin, end, dataUrlsNotValid))
              ELSE d1
        d3 == IF ~info.hasHttpsRepository
              THEN Append(d2, Diagnostic(begin, end, relativeUrlRequiresHttpsRepository))
              ELSE d2
        d4 == IF endsWith(toLowerCase(uri.path), StrDotSvg)
                   /\ NotInList(allowed, toLowerCase(uri.authority))
              THEN Append(d3, Diagnostic(begin, end, svgsNotValid))
              ELSE d3
    IN  d4

addDiagnostics(diagnostics, begin, end, uri, info, allowed) ==
    LET scheme == toLowerCase(uri.scheme)
        d1 == IF scheme # <<>> /\ scheme # StrHttps /\ scheme # StrData
              THEN Append(diagnostics, Diagnostic(begin, end, httpsRequired))
              ELSE diagnostics
        d2 == IF scheme = StrData
              THEN Append(d1, Diagnostic(begin, end, dataUrlsNotValid))
              ELSE d1
        d3 == IF scheme = <<>> /\ ~info.hasHttpsRepository
              THEN Append(d2, Diagnostic(begin, end, relativeUrlRequiresHttpsRepository))
              ELSE d2
        d4 == IF endsWith(toLowerCase(uri.path), StrDotSvg)
                   /\ NotInList(allowed, toLowerCase(uri.authority))
              THEN Append(d3, Diagnostic(begin, end, svgsNotValid))
              ELSE d3
    IN  d4


(***************************************************************************)
(* Bounds of the model                                                     *)
(***************************************************************************)
\* ticks of the clock in one quiet period (the 300 ms of line 86)
QuietPeriod == 2
\* open, change and close events the host delivers after construction
MaxEvents == 2
\* lint passes that may be suspended at the manifest load at the same time
MaxSuspended == 2

(***************************************************************************)
(* Documents (TextDocument objects) and their texts                        *)
(***************************************************************************)
Docs == {"pa", "ra", "cA"}

\* document.uri.path
DocPath ==
    [d \in Docs |->
        CASE d = "pa" -> <<"/","a">> \o StrPackageJson
          [] d = "ra" -> <<"/","a","/","R","E","A","D","M","E",".","m","d">>
          [] d = "cA" -> <<"/","A","/","C","h","a","n","g","e","L","o","g",".","M","D">>]

\* document.languageId
DocLang == [d \in Docs |-> IF d = "pa" THEN "json" ELSE "markdown"]

\* getUriFolder (lines 241-243); the scheme is "file" for every document
getUriFolder == [d \in Docs |-> dirname(DocPath[d])]

Folders == {getUriFolder[d] : d \in Docs}

\* results of Uri.parse; malformed marks a string on which Uri.parse throws
Uri(scheme, authority, path) ==
    [malformed |-> FALSE, scheme |-> scheme, authority |-> authority, path |-> path]
MalformedSrc == [malformed |-> TRUE, scheme |-> <<>>, authority |-> <<>>, path |-> <<>>]
HostX    == <<"x",".","c","o","m">>
SrcHttpPng == Uri(<<"h","t","t","p">>, HostX, <<"/","a",".","p","n","g">>)
SrcRelSvg  == Uri(<<>>, <<>>, <<"i","m","g",".","S","V","G">>)
SrcRelPng  == Uri(<<>>, <<>>, <<"i","m","g",".","p","n","g">>)
SrcDataPng == Uri(StrData, <<>>, <<"i","m","a","g","e","/","p","n","g">>)
SrcRepoHttps == Uri(<<"H","T","T","P","S">>, HostX, <<"/","r">>)
SrcRepoGit   == Uri(<<"g","i","t">>, HostX, <<"/","r">>)

\* JSON nodes as findNodeAtLocation returns them; NoNode is undefined
NoNode == [type |-> "none"]
StringNode(value, offset, length) ==
    [type |-> "string", value |-> value, offset |-> offset, length |-> length]
NumberNode == [type |-> "number"]
ArrayNode(children) == [type |-> "array", children |-> children]

\* a manifest text: whether parseTree yields a tree, and the nodes at the
\* locations the linter looks up (engines.vscode, repository.url, icon,
\* badges with the url node of each element)
Manifest(parses, engines, repository, icon, badges) ==
    [parses |-> parses, engines |-> engines, repository |-> repository,
     icon |-> icon, badges |-> badges]

ManifestTexts ==
    [m1 |-> Manifest(TRUE, StringNode(SrcRelPng, 9, 8), StringNode(SrcRepoHttps, 30, 14),
                     StringNode(SrcHttpPng, 50, 20),
                     ArrayNode(<<NoNode, StringNode(SrcDataPng, 80, 16), NumberNode>>)),
     m2 |-> Manifest(TRUE, StringNode(SrcRelPng, 9, 8), StringNode(SrcRepoGit, 30, 12),
                     StringNode(SrcRelSvg, 50, 9),
                     ArrayNode(<<StringNode(MalformedSrc, 70, 5)>>)),
     m3 |-> Manifest(TRUE, NumberNode, NoNode, StringNode(SrcHttpPng, 20, 20), NoNode),
     m4 |-> Manifest(FALSE, NoNode, NoNode, NoNode, NoNode)]

\* a prose text: the image sources the position mapper locates, in order
Candidate(begin, end, src) == [begin |-> begin, end |-> end, src |-> src]
ReadmeTexts ==
    [t1 |-> <<Candidate(7, 14, SrcRelPng), Candidate(30, 48, SrcHttpPng)>>,
     t2 |-> <<Candidate(7, 12, MalformedSrc)>>]

\* the texts each document may hold
TextsOf ==
    [d \in Docs |->
        CASE d = "pa" -> {"m1", "m2", "m3", "m4"}
          [] d = "ra" -> {"t1", "t2"}
          [] OTHER    -> {"t1"}]

\* product.extensionAllowedBadgeProviders (line 15), lower-cased at line 16
ProductBadgeProviders == << <<"I","m","g",".","S","h","i","e","l","d","s",".","i","o">> >>
allowedBadgeProviders == LowerAll(ProductBadgeProviders)

(***************************************************************************)
(* State                                                                   *)
(***************************************************************************)
VARIABLES
    isOpen,                  \* document -> it is in workspace.textDocuments (not isClosed)
    text,                    \* document -> its current text (a name in TextsOf)
    folderToPackageJsonInfo, \* line 47: folder -> PackageJsonInfo, or NoInfo
    packageJsonQ,            \* line 48: Set<TextDocument>, in insertion order
    readmeQ,                 \* line 49: Set<TextDocument>, in insertion order
    timer,                   \* line 50: TRUE once this.timer holds a handle
    diagnosticsCollection,   \* line 44: document -> published issue list, or NoDiagnostics
    timeouts,                \* the host's pending setTimeout callbacks
    sinceEnqueue,            \* clock ticks since the last add to a queue, capped
    adds,                    \* document -> adds to a queue since the last timeout fired
    pc,                      \* "idle", or where the running lint pass stands
    run,                     \* the lint pass that is running (NoRun when idle)
    suspended,               \* lint passes awaiting loadPackageJson (line 134)
    last,                    \* what the latest step did
    events,                  \* events delivered so far
    urlIn,                   \* validator harness: the input of addDiagnostics
    urlOut,                  \* validator harness: the diagnostics it returned
    scanIn,                  \* scanner harness: the text being scanned
    scanOut                  \* scanner harness: what the scans of it gave

linterVars == <<folderToPackageJsonInfo, packageJsonQ, readmeQ, timer,
                diagnosticsCollection, timeouts, sinceEnqueue, adds>>
vars == <<isOpen, text, folderToPackageJsonInfo, packageJsonQ, readmeQ, timer,
          diagnosticsCollection, timeouts, sinceEnqueue, adds, pc, run, suspended, last,
          events, urlIn, urlOut, scanIn, scanOut>>

NoInfo == [undefined |-> TRUE]
\* an entry of a DiagnosticCollection: absent, or the list last set
NoDiagnostics == [set |-> FALSE, list |-> <<>>]
Published(list) == [set |-> TRUE, list |-> list]
NoRun == [undefined |-> TRUE]
PackageJsonInfo(isExtension, hasHttpsRepository) ==
    [isExtension |-> isExtension, hasHttpsRepository |-> hasHttpsRepository]

Range(q) == {q[i] : i \in 1..Len(q)}
\* Set.prototype.add / delete on an insertion-ordered set
SetAdd(q, d) == IF d \in Range(q) THEN q ELSE Append(q, d)
SetDelete(q, d) == SelectSeq(q, LAMBDA x : x # d)

\* the fields of the linter and of the timer host, threaded through the
\* synchronous code as one record
St ==
    [folderToPackageJsonInfo |-> folderToPackageJsonInfo,
     packageJsonQ |-> packageJsonQ, readmeQ |-> readmeQ, timer |-> timer,
     diagnosticsCollection |-> diagnosticsCollection,
     timeouts |-> timeouts, sinceEnqueue |-> sinceEnqueue, adds |-> adds]

Put(st) ==
    /\ folderToPackageJsonInfo' = st.folderToPackageJsonInfo
    /\ packageJsonQ' = st.packageJsonQ
    /\ readmeQ' = st.readmeQ
    /\ timer' = st.timer
    /\ diagnosticsCollection' = st.diagnosticsCollection
    /\ timeouts' = st.timeouts
    /\ sinceEnqueue' = st.sinceEnqueue
    /\ adds' = st.adds

(***************************************************************************)
(* startTimer (lines 79-87).  A pending timeout is [age, current]: age in  *)
(* ticks since setTimeout, current iff this.timer is its handle.           *)
(***************************************************************************)
clearTimeout(ts) == SelectSeq(ts, LAMBDA t : ~t.current)

setTimeout(ts) ==
    Append([i \in 1..Len(ts) |-> [ts[i] EXCEPT !.current = FALSE]],
           [age |-> 0, current |-> TRUE])

\* startTimer without the clearTimeout of lines 80-82
startTimer_NoClear(st) ==
    [st EXCEPT !.timeouts = setTimeout(st.timeouts), !.timer = TRUE]

startTimer(st) ==
    LET cleared == IF st.timer THEN clearTimeout(st.timeouts) ELSE st.timeouts
    IN  [st EXCEPT !.timeouts = setTimeout(cleared), !.timer = TRUE]

(***************************************************************************)
(* queue, queueReadme (lines 62-77)                                        *)
(***************************************************************************)
IsPackageJson == [d \in Docs |-> DocLang[d] = "json" /\ endsWith(DocPath[d], StrPackageJson)]
IsReadme ==
    [d \in Docs |->
        /\ DocLang[d] = "markdown"
        /\ \/ endsWith(toLowerCase(DocPath[d]), StrReadmeMd)
           \/ endsWith(toLowerCase(DocPath[d]), StrChangelogMd)]

queueReadme(st, d) ==
    IF IsReadme[d]
    THEN startTimer([st EXCEPT !.readmeQ = SetAdd(@, d),
                               !.sinceEnqueue = 0, !.adds[d] = @ + 1])
    ELSE st

queue(st, d) ==
    LET s1 == IF IsPackageJson[d]
              THEN startTimer([st EXCEPT !.packageJsonQ = SetAdd(@, d),
                                         !.sinceEnqueue = 0, !.adds[d] = @ + 1])
              ELSE st
    IN  queueReadme(s1, d)

(***************************************************************************)
(* clear (lines 270-273)                                                   *)
(***************************************************************************)
clear(st, d) ==
    [st EXCEPT !.diagnosticsCollection[d] = NoDiagnostics,
               !.packageJsonQ = SetDelete(@, d)]

(***************************************************************************)
(* readPackageJsonInfo (lines 215-230).  tree is a manifest text record,   *)
(* or NoTree when parseTree or the load gave undefined.                    *)
(***************************************************************************)
NoTree == [parses |-> FALSE]
parseTree(m) == IF m.parses THEN m ELSE NoTree

infoOf(tree) ==
    LET engine == IF tree.parses THEN tree.engines ELSE NoNode
        repo   == IF tree.parses THEN tree.repository ELSE NoNode
    IN  PackageJsonInfo(
            engine.type = "string",
            repo.type = "string" /\ toLowerCase(repo.value.scheme) = StrHttps)

RECURSIVE queueReadmeAll(_, _)
queueReadmeAll(st, docs) ==
    IF docs = <<>> THEN st ELSE queueReadmeAll(queueReadme(st, Head(docs)), Tail(docs))

\* workspace.textDocuments, in a fixed order
DocOrder == <<"pa", "ra", "cA">>
textDocuments == SelectSeq(DocOrder, LAMBDA d : isOpen[d])

\* readPackageJsonInfo comparing the folders without lower-casing them
readPackageJsonInfo_CaseSensitive(st, folder, tree) ==
    LET info    == infoOf(tree)
        oldInfo == st.folderToPackageJsonInfo[folder]
        differs == /\ oldInfo # NoInfo
                   /\ \/ oldInfo.isExtension # info.isExtension
                      \/ oldInfo.hasHttpsRepository # info.hasHttpsRepository
        same    == SelectSeq(textDocuments, LAMBDA d : getUriFolder[d] = folder)
        s1      == IF differs THEN queueReadmeAll(st, same) ELSE st
    IN  [st |-> [s1 EXCEPT !.folderToPackageJsonInfo[folder] = info],
         info |-> info, oldInfo |-> oldInfo]

readPackageJsonInfo(st, folder, tree) ==
    LET info    == infoOf(tree)
        oldInfo == st.folderToPackageJsonInfo[folder]
        differs == /\ oldInfo # NoInfo
                   /\ \/ oldInfo.isExtension # info.isExtension
                      \/ oldInfo.hasHttpsRepository # info.hasHttpsRepository
        same    == SelectSeq(textDocuments,
                       LAMBDA d : toLowerCase(getUriFolder[d]) = toLowerCase(folder))
        s1      == IF differs THEN queueReadmeAll(st, same) ELSE st
    IN  [st |-> [s1 EXCEPT !.folderToPackageJsonInfo[folder] = info],
         info |-> info, oldInfo |-> oldInfo]

\* loadPackageJson (lines 232-239): the text of the folder's package.json,
\* parsed; undefined when no such file exists
loadPackageJson(folder) ==
    LET files == {d \in Docs : DocPath[d] = folder \o StrPackageJson}
    IN  IF files = {} THEN NoTree
        ELSE parseTree(ManifestTexts[text[CHOOSE d \in files : TRUE]])

(***************************************************************************)
(* Scans.  A scan returns [threw, diagnostics]: Uri.parse (line 246)       *)
(* throws on a malformed source, which ends the scan without a result.     *)
(***************************************************************************)
RECURSIVE addAll(_, _, _)
addAll(diagnostics, candidates, info) ==
    IF candidates = <<>> THEN [threw |-> FALSE, diagnostics |-> diagnostics]
    ELSE LET c == Head(candidates)
         IN  IF c.src.malformed THEN [threw |-> TRUE, diagnostics |-> diagnostics]
             ELSE addAll(addDiagnostics(diagnostics, c.begin, c.end, c.src, info,
                                        allowedBadgeProviders),
                         Tail(candidates), info)

\* lines 107-117: the icon node, then the url node of each badge
manifestCandidates(tree) ==
    LET icon   == tree.icon
        badges == tree.badges
        ofNode(n) == Candidate(n.offset + 1, n.offset + n.length - 1, n.value)
        iconC  == IF icon.type = "string" THEN <<ofNode(icon)>> ELSE <<>>
        urls   == IF badges.type = "array"
                  THEN SelectSeq(badges.children, LAMBDA u : u.type = "string")
                  ELSE <<>>
    IN  iconC \o [i \in 1..Len(urls) |-> ofNode(urls[i])]

\* lines 101-119
scanPackageJson(tree, info) ==
    IF info.isExtension THEN addAll(<<>>, manifestCandidates(tree), info)
    ELSE [threw |-> FALSE, diagnostics |-> <<>>]

\* scanReadme without the check of line 137
scanReadme_NoExtensionCheck(t, info) == addAll(<<>>, ReadmeTexts[t], info)

\* lines 137-209
scanReadme(t, info) ==
    IF ~info.isExtension THEN [threw |-> FALSE, diagnostics |-> <<>>]
    ELSE addAll(<<>>, ReadmeTexts[t], info)

(***************************************************************************)
(* The body of the forEach callback of lintPackageJson (lines 96-120) for  *)
(* one document: [st, outcome], outcome in "closed", "scanned", "threw".   *)
(***************************************************************************)
\* the callback of lintPackageJson publishing what it has collected when
\* Uri.parse throws
lintPackageJsonDocument_PublishPartial(st, d) ==
    LET s1 == [st EXCEPT !.packageJsonQ = SetDelete(@, d)]
    IN  IF ~isOpen[d]
        THEN [st |-> s1, outcome |-> "closed", info |-> NoInfo, oldInfo |-> NoInfo]
        ELSE LET tree == parseTree(ManifestTexts[text[d]])
                 r    == readPackageJsonInfo(s1, getUriFolder[d], tree)
                 res  == scanPackageJson(tree, r.info)
             IN  [st |-> [r.st EXCEPT !.diagnosticsCollection[d] = Published(res.diagnostics)],
                  outcome |-> IF res.threw THEN "threw" ELSE "scanned",
                  info |-> r.info, oldInfo |-> r.oldInfo]

\* the callback of lintPackageJson taking the cached PackageJsonInfo of
\* the folder when there is one
lintPackageJsonDocument_CachedInfo(st, d) ==
    LET s1 == [st EXCEPT !.packageJsonQ = SetDelete(@, d)]
    IN  IF ~isOpen[d]
        THEN [st |-> s1, outcome |-> "closed", info |-> NoInfo, oldInfo |-> NoInfo]
        ELSE LET tree   == parseTree(ManifestTexts[text[d]])
                 cached == s1.folderToPackageJsonInfo[getUriFolder[d]]
                 r      == IF cached # NoInfo
                           THEN [st |-> s1, info |-> cached, oldInfo |-> cached]
                           ELSE readPackageJsonInfo(s1, getUriFolder[d], tree)
                 res    == IF tree.parses THEN scanPackageJson(tree, r.info)
                           ELSE [threw |-> FALSE, diagnostics |-> <<>>]
             IN  [st |-> IF res.threw THEN r.st
                         ELSE [r.st EXCEPT !.diagnosticsCollection[d] = Published(res.diagnostics)],
                  outcome |-> IF res.threw THEN "threw" ELSE "scanned",
                  info |-> r.info, oldInfo |-> r.oldInfo]

lintPackageJsonDocument(st, d) ==
    LET s1 == [st EXCEPT !.packageJsonQ = SetDelete(@, d)]
    IN  IF ~isOpen[d]
        THEN [st |-> s1, outcome |-> "closed", info |-> NoInfo, oldInfo |-> NoInfo]
        ELSE LET tree == parseTree(ManifestTexts[text[d]])
                 r    == readPackageJsonInfo(s1, getUriFolder[d], tree)
                 res  == scanPackageJson(tree, r.info)
             IN  [st |-> IF res.threw THEN r.st
                         ELSE [r.st EXCEPT !.diagnosticsCollection[d] = Published(res.diagnostics)],
                  outcome |-> IF res.threw THEN "threw" ELSE "scanned",
                  info |-> r.info, oldInfo |-> r.oldInfo]

(***************************************************************************)
(* The loop body of lintReadme from line 137 on, once info is known:       *)
(* outcome "return" (line 139), "threw", or "next" (line 211).             *)
(***************************************************************************)
lintReadmeDocument(st, d, info) ==
    LET res == scanReadme(text[d], info)
    IN  IF res.threw THEN [st |-> st, outcome |-> "threw"]
        ELSE [st |-> [st EXCEPT !.diagnosticsCollection[d] = Published(res.diagnostics)],
              outcome |-> IF info.isExtension THEN "next" ELSE "return"]

(***************************************************************************)
(* Steps.  The host is single-threaded: while a lint pass runs (pc is not  *)
(* "idle") no event is delivered, no timeout fires and no load completes.  *)
(***************************************************************************)
NoDoc == "none"
NoCompute == [undefined |-> TRUE]
NoUrlIn == [undefined |-> TRUE]

\* What a step did.  scanQuiet: sinceEnqueue when the step began to scan doc,
\* or -1 (no scan).  used: the PackageJsonInfo the scan used.  computed: the
\* call of readPackageJsonInfo the step made.  ended: "no", or how the lint
\* pass ended ("done", "return", "threw"), with the pass as it ended.
Did(op, doc) ==
    [op |-> op, doc |-> doc, scanQuiet |-> -1, used |-> NoInfo,
     computed |-> NoCompute, ended |-> "no", pass |-> NoRun]
Computed(folder, oldInfo, info) == [folder |-> folder, old |-> oldInfo, new |-> info]

\* History kept with a lint pass: seen[folder] is the set of PackageJsonInfo
\* values the manifest text of the folder gave, each time readPackageJsonInfo
\* ran for the folder since the pass began.
Saw(pass, folder, info) == [pass EXCEPT !.seen[folder] = @ \cup {info}]
SawAll(passes, folder, info) == [i \in 1..Len(passes) |-> Saw(passes[i], folder, info)]

harnessVars == <<urlIn, urlOut, scanIn, scanOut>>
hostVars == <<isOpen, text, events>>

RECURSIVE queueAll(_, _)
queueAll(st, docs) ==
    IF docs = <<>> THEN st ELSE queueAll(queue(st, Head(docs)), Tail(docs))

\* the fields as declared (lines 44-50), before the constructor body runs
FreshSt ==
    [folderToPackageJsonInfo |-> [f \in Folders |-> NoInfo],
     packageJsonQ |-> <<>>, readmeQ |-> <<>>, timer |-> FALSE,
     diagnosticsCollection |-> [d \in Docs |-> NoDiagnostics],
     timeouts |-> <<>>, sinceEnqueue |-> QuietPeriod, adds |-> [d \in Docs |-> 0]]

AllTexts == UNION {TextsOf[d] : d \in Docs}

\* constructor (lines 53-60): every document already open is queued
Init ==
    /\ isOpen \in [Docs -> BOOLEAN]
    /\ text \in [Docs -> AllTexts]
    /\ \A d \in Docs : text[d] \in TextsOf[d]
    /\ LET st == queueAll(FreshSt, SelectSeq(DocOrder, LAMBDA d : isOpen[d]))
       IN  /\ folderToPackageJsonInfo = st.folderToPackageJsonInfo
           /\ packageJsonQ = st.packageJsonQ
           /\ readmeQ = st.readmeQ
           /\ timer = st.timer
           /\ diagnosticsCollection = st.diagnosticsCollection
           /\ timeouts = st.timeouts
           /\ sinceEnqueue = st.sinceEnqueue
           /\ adds = st.adds
    /\ pc = "idle"
    /\ run = NoRun
    /\ suspended = <<>>
    /\ last = Did("init", NoDoc)
    /\ events = 0
    /\ urlIn = NoUrlIn
    /\ urlOut = NoDiagnostics
    /\ scanIn = [undefined |-> TRUE]
    /\ scanOut = [undefined |-> TRUE]

\* workspace.onDidOpenTextDocument (line 55)
Open(d) ==
    /\ pc = "idle"
    /\ events < MaxEvents
    /\ ~isOpen[d]
    /\ isOpen' = [isOpen EXCEPT ![d] = TRUE]
    /\ Put(queue(St, d))
    /\ last' = Did("open", d)
    /\ events' = events + 1
    /\ UNCHANGED <<text, pc, run, suspended, harnessVars>>

\* workspace.onDidChangeTextDocument (line 56)
Change(d, t) ==
    /\ pc = "idle"
    /\ events < MaxEvents
    /\ isOpen[d]
    /\ t \in TextsOf[d]
    /\ text' = [text EXCEPT ![d] = t]
    /\ Put(queue(St, d))
    /\ last' = Did("change", d)
    /\ events' = events + 1
    /\ UNCHANGED <<isOpen, pc, run, suspended, harnessVars>>

\* workspace.onDidCloseTextDocument (line 57)
Close(d) ==
    /\ pc = "idle"
    /\ events < MaxEvents
    /\ isOpen[d]
    /\ isOpen' = [isOpen EXCEPT ![d] = FALSE]
    /\ Put(clear(St, d))
    /\ last' = Did("close", d)
    /\ events' = events + 1
    /\ UNCHANGED <<text, pc, run, suspended, harnessVars>>

\* the clock advances by one tick; a timeout that is due fires first
Tick ==
    /\ pc = "idle"
    /\ \A i \in 1..Len(timeouts) : timeouts[i].age < QuietPeriod
    /\ timeouts # <<>> \/ sinceEnqueue < QuietPeriod
    /\ timeouts' = [i \in 1..Len(timeouts) |-> [timeouts[i] EXCEPT !.age = @ + 1]]
    /\ sinceEnqueue' = IF sinceEnqueue < QuietPeriod THEN sinceEnqueue + 1 ELSE sinceEnqueue
    /\ last' = Did("tick", NoDoc)
    /\ UNCHANGED <<hostVars, folderToPackageJsonInfo, packageJsonQ, readmeQ, timer,
                   diagnosticsCollection, adds, pc, run, suspended, harnessVars>>

\* the setTimeout callback (lines 83-86) begins lint()
TimerFire(i) ==
    /\ pc = "idle"
    /\ timeouts[i].age >= QuietPeriod
    /\ Len(suspended) < MaxSuspended
    /\ timeouts' = [j \in 1..(Len(timeouts) - 1) |->
                        IF j < i THEN timeouts[j] ELSE timeouts[j + 1]]
    /\ pc' = "lintPackageJson"
    /\ run' = [atFire |-> Range(packageJsonQ) \cup Range(readmeQ), adds |-> adds,
               proc |-> {}, scans |-> <<>>, rest |-> <<>>, doc |-> NoDoc,
               seen |-> [f \in Folders |-> {}]]
    /\ adds' = [d \in Docs |-> 0]
    /\ last' = Did("fire", NoDoc)
    /\ UNCHANGED <<hostVars, folderToPackageJsonInfo, packageJsonQ, readmeQ, timer,
                   diagnosticsCollection, sinceEnqueue, suspended, harnessVars>>

\* lintPackageJson (lines 94-122): one iteration of the forEach; an
\* exception leaves lint() rejected (line 85)
LintPackageJsonStep ==
    /\ pc = "lintPackageJson"
    /\ packageJsonQ # <<>>
    /\ LET d    == Head(packageJsonQ)
           r    == lintPackageJsonDocument(St, d)
           scan == r.outcome # "closed"
           now  == infoOf(parseTree(ManifestTexts[text[d]]))
           p0   == [run EXCEPT !.proc = @ \cup {d},
                               !.scans = IF scan THEN Append(@, d) ELSE @]
           pass == IF scan THEN Saw(p0, getUriFolder[d], now) ELSE p0
           did  == [Did("lintPackageJson", d) EXCEPT
                       !.scanQuiet = IF scan THEN sinceEnqueue ELSE -1,
                       !.used = r.info,
                       !.computed = IF scan THEN Computed(getUriFolder[d], r.oldInfo, r.info)
                                    ELSE NoCompute]
       IN  /\ Put(r.st)
           /\ suspended' = IF scan THEN SawAll(suspended, getUriFolder[d], now)
                           ELSE suspended
           /\ IF r.outcome = "threw"
              THEN /\ pc' = "idle"
                   /\ run' = NoRun
                   /\ last' = [did EXCEPT !.ended = "threw", !.pass = pass]
              ELSE /\ pc' = pc
                   /\ run' = pass
                   /\ last' = did
    /\ UNCHANGED <<hostVars, harnessVars>>

\* lint (lines 89-92): lintPackageJson returned; lintReadme takes
\* Array.from(this.readmeQ) (line 125)
LintPackageJsonDone ==
    /\ pc = "lintPackageJson"
    /\ packageJsonQ = <<>>
    /\ pc' = "lintReadme"
    /\ run' = [run EXCEPT !.rest = readmeQ]
    /\ last' = Did("lintReadme", NoDoc)
    /\ UNCHANGED <<hostVars, linterVars, suspended, harnessVars>>

\* lines 137-211 with info known: scan and publish, then go on with the
\* loop, or stop (the return of line 139, or an exception)
Proceed(did, st, d, info, pass) ==
    LET r  == lintReadmeDocument(st, d, info)
        p  == [pass EXCEPT !.scans = Append(@, d)]
        dd == [did EXCEPT !.scanQuiet = st.sinceEnqueue, !.used = info]
    IN  /\ Put(r.st)
        /\ IF r.outcome = "next"
           THEN /\ pc' = "lintReadme"
                /\ run' = p
                /\ last' = dd
           ELSE /\ pc' = "idle"
                /\ run' = NoRun
                /\ last' = [dd EXCEPT !.ended = r.outcome, !.pass = p]

\* lintReadme (lines 124-213): one iteration of the for loop, up to the
\* await of line 134 when the folder has no cached info
LintReadmeStep ==
    /\ pc = "lintReadme"
    /\ IF run.rest = <<>>
       THEN /\ pc' = "idle"
            /\ run' = NoRun
            /\ last' = [Did("lintReadme", NoDoc) EXCEPT !.ended = "done", !.pass = run]
            /\ UNCHANGED <<linterVars, suspended>>
       ELSE LET d    == Head(run.rest)
                s1   == [St EXCEPT !.readmeQ = SetDelete(@, d)]
                pass == [run EXCEPT !.rest = Tail(@), !.proc = @ \cup {d}, !.doc = d]
                info == folderToPackageJsonInfo[getUriFolder[d]]
            IN  IF ~isOpen[d]
                THEN /\ Put(s1)
                     /\ pc' = "idle"
                     /\ run' = NoRun
                     /\ last' = [Did("lintReadme", d) EXCEPT !.ended = "return", !.pass = pass]
                     /\ UNCHANGED suspended
                ELSE IF info = NoInfo
                THEN /\ Put(s1)
                     /\ suspended' = Append(suspended, pass)
                     /\ pc' = "idle"
                     /\ run' = NoRun
                     /\ last' = Did("await", d)
                ELSE /\ Proceed(Did("lintReadme", d), s1, d, info, pass)
                     /\ UNCHANGED suspended
    /\ UNCHANGED <<hostVars, harnessVars>>

\* the await of line 134 completes: lines 135-211 for the awaited document
LoadResume(i) ==
    /\ pc = "idle"
    /\ LET d      == suspended[i].doc
           folder == getUriFolder[d]
           now    == infoOf(loadPackageJson(folder))
           pass   == Saw(suspended[i], folder, now)
           others == [j \in 1..(Len(suspended) - 1) |->
                         IF j < i THEN suspended[j] ELSE suspended[j + 1]]
           r      == readPackageJsonInfo(St, folder, loadPackageJson(folder))
           did    == [Did("resume", d) EXCEPT !.computed = Computed(folder, r.oldInfo, r.info)]
       IN  /\ Proceed(did, r.st, d, r.info, pass)
           /\ suspended' = SawAll(others, folder, now)
    /\ UNCHANGED <<hostVars, harnessVars>>

Next ==
    \/ \E d \in Docs : Open(d)
    \/ \E d \in Docs : \E t \in TextsOf[d] : Change(d, t)
    \/ \E d \in Docs : Close(d)
    \/ Tick
    \/ \E i \in DOMAIN timeouts : TimerFire(i)
    \/ LintPackageJsonStep
    \/ LintPackageJsonDone
    \/ LintReadmeStep
    \/ \E i \in DOMAIN suspended : LoadResume(i)

Spec == Init /\ [][Next]_vars

(***************************************************************************)
(* The URL rules on their own: addDiagnostics applied to parsed URLs drawn *)
(* from small sets, on top of a diagnostics array that may hold an entry.  *)
(***************************************************************************)
UrlSchemes ==
    {<<>>, StrHttps, <<"H","T","T","P","S">>, <<"h","t","t","p">>, StrData,
     <<"D","a","t","a">>, <<"f","t","p">>}
HostShields == <<"i","m","g",".","s","h","i","e","l","d","s",".","i","o">>
UrlAuthorities ==
    {<<>>, HostX, HostShields, <<"I","M","G",".","s","h","i","e","l","d","s",".","i","o">>}
UrlPaths ==
    {<<>>, <<"/","a",".","p","n","g">>, <<"/","b",".","S","V","G">>, StrDotSvg,
     <<"s","v","g">>, <<"/","c",".","s","v","g">>}
UrlProviderLists == {<<>>, ProductBadgeProviders, <<HostX, <<>>>>}
UrlPriors == {<<>>, <<Diagnostic(0, 1, svgsNotValid)>>}

UrlInputs ==
    [uri : {Uri(s, a, p) : s \in UrlSchemes, a \in UrlAuthorities, p \in UrlPaths},
     hasHttpsRepository : BOOLEAN,
     providers : UrlProviderLists,
     prior : UrlPriors,
     begin : {3}, end : {9}]

\* the linter fields do not take part: no document, nothing queued
InitUrl ==
    /\ isOpen = [d \in Docs |-> FALSE]
    /\ text = [d \in Docs |-> CHOOSE t \in TextsOf[d] : TRUE]
    /\ folderToPackageJsonInfo = FreshSt.folderToPackageJsonInfo
    /\ packageJsonQ = <<>>
    /\ readmeQ = <<>>
    /\ timer = FALSE
    /\ diagnosticsCollection = FreshSt.diagnosticsCollection
    /\ timeouts = <<>>
    /\ sinceEnqueue = QuietPeriod
    /\ adds = FreshSt.adds
    /\ pc = "idle"
    /\ run = NoRun
    /\ suspended = <<>>
    /\ last = Did("init", NoDoc)
    /\ events = 0
    /\ urlIn = NoUrlIn
    /\ urlOut = NoDiagnostics
    /\ scanIn = [undefined |-> TRUE]
    /\ scanOut = [undefined |-> TRUE]

\* a caller has a parsed source and a diagnostics array
UrlPick ==
    /\ urlIn = NoUrlIn \/ urlOut.set
    /\ urlIn' \in UrlInputs
    /\ urlOut' = NoDiagnostics
    /\ UNCHANGED <<hostVars, linterVars, pc, run, suspended, last, scanIn, scanOut>>

\* the call of addDiagnostics
UrlAddDiagnostics ==
    /\ urlIn # NoUrlIn
    /\ urlOut = NoDiagnostics
    /\ urlOut' = Published(addDiagnostics(urlIn.prior, urlIn.begin, urlIn.end, urlIn.uri,
                                          PackageJsonInfo(TRUE, urlIn.hasHttpsRepository),
                                          LowerAll(urlIn.providers)))
    /\ UNCHANGED <<urlIn, hostVars, linterVars, pc, run, suspended, last, scanIn, scanOut>>

NextUrl == UrlPick \/ UrlAddDiagnostics

SpecUrl == InitUrl /\ [][NextUrl]_vars

(***************************************************************************)
(* The scanners on texts.  A text is its characters; the token tree of     *)
(* markdownIt.parse (line 143), the start tags of parse5 (line 196) and    *)
(* the nodes of parseTree (line 102) are given with the text they belong   *)
(* to, as those parsers return them.                                       *)
(***************************************************************************)
Quote == "\""
Newline == "\n"

\* String.prototype.substring(a, b) for 0 <= a <= b
substring(s, a, b) == SubSeq(s, a + 1, b)

\* the first offset >= from of a character of set, or the length of s
FirstOf(s, set, from) ==
    LET hits == {k \in from..(Len(s) - 1) : s[k + 1] \in set}
    IN  IF hits = {} THEN Len(s) ELSE CHOOSE k \in hits : \A j \in hits : k <= j

HexDigits ==
    {"0","1","2","3","4","5","6","7","8","9","a","b","c","d","e","f","A","B","C","D","E","F"}

\* Uri.parse (line 246): scheme up to the first ":" when it comes before
\* any of "/", "?", "#"; authority after "//"; path up to "?" or "#".  It
\* throws on a "%" that two hexadecimal digits do not follow.
UriParse(s) ==
    LET colon     == FirstOf(s, {":"}, 0)
        stop      == FirstOf(s, {"/", "?", "#"}, 0)
        hasScheme == colon > 0 /\ colon < Len(s) /\ colon < stop
        rest      == IF hasScheme THEN colon + 1 ELSE 0
        hasAuth   == OccursAt(s, <<"/","/">>, rest)
        pathBegin == IF hasAuth THEN FirstOf(s, {"/", "?", "#"}, rest + 2) ELSE rest
        pathEnd   == FirstOf(s, {"?", "#"}, pathBegin)
    IN  [malformed |-> \E k \in 1..Len(s) :
                          /\ s[k] = "%"
                          /\ ~(k + 2 <= Len(s) /\ s[k + 1] \in HexDigits /\ s[k + 2] \in HexDigits),
         scheme    |-> IF hasScheme THEN substring(s, 0, colon) ELSE <<>>,
         authority |-> IF hasAuth THEN substring(s, rest + 2, pathBegin) ELSE <<>>,
         path      |-> substring(s, pathBegin, pathEnd)]

\* document.offsetAt(new Position(line, 0)) (lines 147-148): the offset at
\* which the line begins, the end of the text for a line past the last
offsetAt(txt, line) ==
    LET breaks == {k \in 1..Len(txt) : txt[k] = Newline}
    IN  IF line = 0 THEN 0
        ELSE IF Cardinality(breaks) < line THEN Len(txt)
        ELSE CHOOSE k \in breaks : Cardinality({j \in breaks : j <= k}) = line

\* the string node parseTree gives for the literal that follows key: it
\* begins at the opening quotation mark and spans the characters of the
\* token, the closing quotation mark included when the literal has one
\* (a literal that the end of its line cuts short has none)
ValueAt(txt, key, raw, terminated) ==
    StringNode(UriParse(raw), indexOf(txt, key, 0) + Len(key),
               Len(raw) + (IF terminated THEN 2 ELSE 1))

KeyVscode == <<"\"","v","s","c","o","d","e","\"",":">>
KeyIcon   == <<"\"","i","c","o","n","\"",":">>
KeyUrl    == <<"\"","u","r","l","\"",":">>
KeyBadges == <<"\"","b","a","d","g","e","s","\"",":">>

Text_j1 == <<"{","\"","e","n","g","i","n","e","s","\"",":","{","\"","v","s","c","o","d","e","\"",":","\"","^","1",".","0",".","0","\"","}",",","\"","i","c","o","n","\"",":","\"","h","t","t","p",":","/","/","x",".","c","o","m","/","a",".","p","n","g","\"","}">>
Text_j2 == <<"{","\"","e","n","g","i","n","e","s","\"",":","{","\"","v","s","c","o","d","e","\"",":","\"","1","\"","}",",","\"","i","c","o","n","\"",":","7",",","\"","b","a","d","g","e","s","\"",":","[","{","\"","u","r","l","\"",":","\"","a",".","s","v","g","\"","}",",","{","\"","u","r","l","\"",":","1","}",",","{","\"","x","\"",":","2","}","]","}">>
Text_j3 == <<"{","\"","e","n","g","i","n","e","s","\"",":","{","\"","v","s","c","o","d","e","\"",":","\"","1","\"","}",",","\"","b","a","d","g","e","s","\"",":","\"","b",".","s","v","g","\"","}">>
Text_j4 == <<"{","\"","e","n","g","i","n","e","s","\"",":","{","\"","v","s","c","o","d","e","\"",":","\"","1","\"","}",",","\"","i","c","o","n","\"",":","\"","\n","}">>
Text_j5 == <<"{","\"","e","n","g","i","n","e","s","\"",":","{","\"","v","s","c","o","d","e","\"",":","\"","1","\"","}",",","\"","i","c","o","n","\"",":","\"","a",".","s","v","g","\n","}">>
Text_j6 == <<"{","\"","i","c","o","n","\"",":","\"","h","t","t","p",":","/","/","x",".","c","o","m","/","a",".","p","n","g","\"","}">>
Text_j7 == <<"{","\"","e","n","g","i","n","e","s","\"",":","{","\"","v","s","c","o","d","e","\"",":","\"","1","\"","}",",","\"","r","e","p","o","s","i","t","o","r","y","\"",":","{","\"","u","r","l","\"",":","\"","h","t","t","p","s",":","/","/","x",".","c","o","m","/","r","\"","}",",","\"","i","c","o","n","\"",":","\"","a",".","p","n","g","\"","}">>

\* manifest texts with the tree parseTree gives for them
ManifestDocs ==
    [j1 |-> [text |-> Text_j1,
             tree |-> Manifest(TRUE, ValueAt(Text_j1, KeyVscode, <<"^","1",".","0",".","0">>, TRUE), NoNode,
                               ValueAt(Text_j1, KeyIcon, <<"h","t","t","p",":","/","/","x",".","c","o","m","/","a",".","p","n","g">>, TRUE), NoNode)],
     j2 |-> [text |-> Text_j2,
             tree |-> Manifest(TRUE, ValueAt(Text_j2, KeyVscode, <<"1">>, TRUE), NoNode,
                               NumberNode,
                               ArrayNode(<<ValueAt(Text_j2, KeyUrl, <<"a",".","s","v","g">>, TRUE),
                                           NumberNode, NoNode>>))],
     j3 |-> [text |-> Text_j3,
             tree |-> Manifest(TRUE, ValueAt(Text_j3, KeyVscode, <<"1">>, TRUE), NoNode,
                               NoNode, ValueAt(Text_j3, KeyBadges, <<"b",".","s","v","g">>, TRUE))],
     j4 |-> [text |-> Text_j4,
             tree |-> Manifest(TRUE, ValueAt(Text_j4, KeyVscode, <<"1">>, TRUE), NoNode,
                               ValueAt(Text_j4, KeyIcon, <<>>, FALSE), NoNode)],
     j5 |-> [text |-> Text_j5,
             tree |-> Manifest(TRUE, ValueAt(Text_j5, KeyVscode, <<"1">>, TRUE), NoNode,
                               ValueAt(Text_j5, KeyIcon, <<"a",".","s","v","g">>, FALSE), NoNode)],
     j6 |-> [text |-> Text_j6,
             tree |-> Manifest(TRUE, NoNode, NoNode,
                               ValueAt(Text_j6, KeyIcon, <<"h","t","t","p",":","/","/","x",".","c","o","m","/","a",".","p","n","g">>, TRUE), NoNode)],
     j7 |-> [text |-> Text_j7,
             tree |-> Manifest(TRUE, ValueAt(Text_j7, KeyVscode, <<"1">>, TRUE),
                               ValueAt(Text_j7, KeyUrl, <<"h","t","t","p","s",":","/","/","x",".","c","o","m","/","r">>, TRUE),
                               ValueAt(Text_j7, KeyIcon, <<"a",".","p","n","g">>, TRUE), NoNode)]]

\* markdown-it tokens: map is the line range of a block token (NoMap for
\* null), src is attrGet('src') (empty for null), tags are the start tags
\* parse5 reports for the content of a text token
NoMap == <<>>
Token(type, map, content, src, children, tags) ==
    [type |-> type, map |-> map, content |-> content, src |-> src,
     children |-> children, tags |-> tags]
BlockToken(type, first, after) == Token(type, <<first, after>>, <<>>, <<>>, <<>>, <<>>)
ClosingToken(type) == Token(type, NoMap, <<>>, <<>>, <<>>, <<>>)
InlineToken(first, after, content, children) ==
    Token("inline", <<first, after>>, content, <<>>, children, <<>>)
TextToken(content, tags) == Token("text", NoMap, content, <<>>, <<>>, tags)
ImageToken(src, alt) == Token("image", NoMap, alt, src, <<TextToken(alt, <<>>)>>, <<>>)
StartTag(name, src, startOffset) == [name |-> name, src |-> src, startOffset |-> startOffset]

Text_r1 == <<"!","[","a","]","(","x",".","s","v","g",")","\n">>
Text_r2 == <<"<","i","m","g"," ","s","r","c","=","\"","d","a","t","a",":","i","m","a","g","e","/","p","n","g",";","b","a","s","e","6","4",",","A","A","A","\"",">","\n">>
Text_r3 == <<"-"," ","a","\n","-"," ","!","[","b","]","(","h","t","t","p",":","/","/","h","/","c",".","p","n","g",")","\n">>
Text_r4 == <<"&","l","t",";","\n","\n","<","\n">>
Text_r5 == <<"<","i","m","g"," ","s","r","c","=","\"","%","\"",">","\n">>
Text_r6 == <<"!","[","x",".","p","n","g","]","(","x",".","p","n","g",")","\n">>

\* prose texts with the tokens markdownIt.parse gives for them
ProseDocs ==
    [r1 |-> [text |-> Text_r1,
             tokens |-> <<BlockToken("paragraph_open", 0, 1),
                        InlineToken(0, 1, <<"!","[","a","]","(","x",".","s","v","g",")">>,
                                    <<ImageToken(<<"x",".","s","v","g">>, <<"a">>)>>),
                        ClosingToken("paragraph_close")>>],
     r2 |-> [text |-> Text_r2,
             tokens |-> <<BlockToken("paragraph_open", 0, 1),
                        InlineToken(0, 1, <<"<","i","m","g"," ","s","r","c","=","\"","d","a","t","a",":","i","m","a","g","e","/","p","n","g",";","b","a","s","e","6","4",",","A","A","A","\"",">">>,
                                    <<TextToken(<<"<","i","m","g"," ","s","r","c","=","\"","d","a","t","a",":","i","m","a","g","e","/","p","n","g",";","b","a","s","e","6","4",",","A","A","A","\"",">">>,
                                      <<StartTag("img", <<"d","a","t","a",":","i","m","a","g","e","/","p","n","g",";","b","a","s","e","6","4",",","A","A","A">>, 0)>>)>>),
                        ClosingToken("paragraph_close")>>],
     r3 |-> [text |-> Text_r3,
             tokens |-> <<BlockToken("bullet_list_open", 0, 2),
                        BlockToken("list_item_open", 0, 1),
                        BlockToken("paragraph_open", 0, 1),
                        InlineToken(0, 1, <<"a">>,
                                    <<TextToken(<<"a">>, <<>>)>>),
                        ClosingToken("paragraph_close"),
                        ClosingToken("list_item_close"),
                        BlockToken("list_item_open", 1, 2),
                        BlockToken("paragraph_open", 1, 2),
                        InlineToken(1, 2, <<"!","[","b","]","(","h","t","t","p",":","/","/","h","/","c",".","p","n","g",")">>,
                                    <<ImageToken(<<"h","t","t","p",":","/","/","h","/","c",".","p","n","g">>, <<"b">>)>>),
                        ClosingToken("paragraph_close"),
                        ClosingToken("list_item_close"),
                        ClosingToken("bullet_list_close")>>],
     r4 |-> [text |-> Text_r4,
             tokens |-> <<BlockToken("paragraph_open", 0, 1),
                        InlineToken(0, 1, <<"&","l","t",";">>,
                                    <<TextToken(<<"<">>, <<>>)>>),
                        ClosingToken("paragraph_close"),
                        BlockToken("paragraph_open", 2, 3),
                        InlineToken(2, 3, <<"<">>,
                                    <<TextToken(<<"<">>, <<>>)>>),
                        ClosingToken("paragraph_close")>>],
     r5 |-> [text |-> Text_r5,
             tokens |-> <<BlockToken("paragraph_open", 0, 1),
                        InlineToken(0, 1, <<"<","i","m","g"," ","s","r","c","=","\"","%","\"",">">>,
                                    <<TextToken(<<"<","i","m","g"," ","s","r","c","=","\"","%","\"",">">>, <<StartTag("img", <<"%">>, 0)>>)>>),
                        ClosingToken("paragraph_close")>>],
     r6 |-> [text |-> Text_r6,
             tokens |-> <<BlockToken("paragraph_open", 0, 1),
                        InlineToken(0, 1, <<"!","[","x",".","p","n","g","]","(","x",".","p","n","g",")">>,
                                    <<ImageToken(<<"x",".","p","n","g">>, <<"x",".","p","n","g">>)>>),
                        ClosingToken("paragraph_close")>>]]

(***************************************************************************)
(* toTokensAndPositions (lines 144-180).  An entry of its result is        *)
(* [token, begin, end]; kept with it as history are cursor, the value of   *)
(* the shared variable begin when the token was reached, next, its value   *)
(* afterwards, and lo and hi, the begin and end the level was entered      *)
(* with.                                                                   *)
(***************************************************************************)
\* lines 146-174 without the test of line 160
placeToken_NoEndCheck(txt, token, begin, end) ==
    LET content    == IF token.type = "image" /\ token.src # <<>> THEN token.src
                      ELSE token.content
        tokenBegin == indexOf(txt, content, begin)
        tokenEnd   == tokenBegin + Len(content)
    IN  IF token.map # NoMap
        THEN [begin |-> offsetAt(txt, token.map[1]), end |-> offsetAt(txt, token.map[2]),
              next |-> offsetAt(txt, token.map[2])]
        ELSE IF content # <<>> /\ tokenBegin # -1
        THEN [begin |-> tokenBegin, end |-> tokenEnd, next |-> tokenEnd]
        ELSE [begin |-> begin, end |-> begin, next |-> begin]

\* lines 146-174: the span of one token and the value of begin after it
placeToken(txt, token, begin, end) ==
    LET content    == IF token.type = "image" /\ token.src # <<>> THEN token.src
                      ELSE token.content
        tokenBegin == indexOf(txt, content, begin)
        tokenEnd   == tokenBegin + Len(content)
    IN  IF token.map # NoMap
        THEN [begin |-> offsetAt(txt, token.map[1]), end |-> offsetAt(txt, token.map[2]),
              next |-> offsetAt(txt, token.map[2])]
        ELSE IF content # <<>> /\ tokenBegin # -1 /\ tokenEnd <= end
        THEN [begin |-> tokenBegin, end |-> tokenEnd, next |-> tokenEnd]
        ELSE [begin |-> begin, end |-> begin, next |-> begin]

\* tokens.map(...) of line 145, begin carried from token to token
RECURSIVE mapTokens(_, _, _, _, _)
mapTokens(txt, tokens, lo, begin, end) ==
    IF tokens = <<>> THEN <<>>
    ELSE LET p == placeToken(txt, Head(tokens), begin, end)
         IN  <<[token |-> Head(tokens), begin |-> p.begin, end |-> p.end,
                cursor |-> begin, next |-> p.next, lo |-> lo, hi |-> end]>>
             \o mapTokens(txt, Tail(tokens), lo, p.next, end)

RECURSIVE toTokensAndPositions(_, _, _, _)
RECURSIVE childPositions(_, _)
\* lines 177-178: the tokens of the children of each entry, in order
childPositions(txt, tnps) ==
    IF tnps = <<>> THEN <<>>
    ELSE toTokensAndPositions(txt, Head(tnps).token.children, Head(tnps).begin, Head(tnps).end)
         \o childPositions(txt, Tail(tnps))

toTokensAndPositions(txt, tokens, begin, end) ==
    LET tokensAndPositions == mapTokens(txt, tokens, begin, begin, end)
    IN  tokensAndPositions
        \o childPositions(txt, SelectSeq(tokensAndPositions,
                                          LAMBDA tnp : tnp.token.children # <<>>))

\* lines 183-191: the Markdown images
imageCandidates(txt, tnps) ==
    LET at(inp) == indexOf(txt, inp.token.src, inp.begin)
        images  == SelectSeq(tnps, LAMBDA tnp : tnp.token.type = "image" /\ tnp.token.src # <<>>)
        found   == SelectSeq(images, LAMBDA inp : at(inp) # -1 /\ at(inp) < inp.end)
    IN  [i \in 1..Len(found) |->
            Candidate(at(found[i]), at(found[i]) + Len(found[i].token.src),
                      UriParse(found[i].token.src))]

\* lines 196-205: the img start tags of one text token
tagCandidates(txt, tnp) ==
    LET at(tag) == indexOf(txt, tag.src, tnp.begin + tag.startOffset)
        found   == SelectSeq(tnp.token.tags,
                             LAMBDA tag : /\ tag.name = "img"
                                          /\ tag.src # <<>>
                                          /\ at(tag) # -1
                                          /\ at(tag) < tnp.end)
    IN  [i \in 1..Len(found) |->
            Candidate(at(found[i]), at(found[i]) + Len(found[i].src), UriParse(found[i].src))]

\* lines 193-209: the text tokens, in order
RECURSIVE htmlCandidates(_, _)
htmlCandidates(txt, tnps) ==
    IF tnps = <<>> THEN <<>>
    ELSE (IF Head(tnps).token.type = "text" /\ Head(tnps).token.content # <<>>
          THEN tagCandidates(txt, Head(tnps)) ELSE <<>>)
         \o htmlCandidates(txt, Tail(tnps))

\* lines 142-209: the candidates of a prose text in the order of the calls
\* of addDiagnostics
proseCandidates(doc) ==
    LET tnps == toTokensAndPositions(doc.text, doc.tokens, 0, Len(doc.text))
    IN  imageCandidates(doc.text, tnps) \o htmlCandidates(doc.text, tnps)

\* lines 137-211 keeping one diagnostics array from scan to scan
lintReadmeText_KeepsArray(entry, doc, info) ==
    IF ~info.isExtension THEN Published(<<>>)
    ELSE LET res == addAll(entry.list, proseCandidates(doc), info)
         IN  IF res.threw THEN entry ELSE Published(res.diagnostics)

\* lines 137-211 for a prose text: the entry of the document in the
\* diagnostics collection afterwards (unchanged when Uri.parse throws)
lintReadmeText(entry, doc, info) ==
    IF ~info.isExtension THEN Published(<<>>)
    ELSE LET res == addAll(<<>>, proseCandidates(doc), info)
         IN  IF res.threw THEN entry ELSE Published(res.diagnostics)

\* lines 101-120 for a manifest text
lintPackageJsonText(entry, doc) ==
    LET tree == parseTree(doc.tree)
        res  == scanPackageJson(tree, infoOf(tree))
    IN  IF res.threw THEN entry ELSE Published(res.diagnostics)

(***************************************************************************)
(* The scanners on their own: a text is scanned, and scanned again, each   *)
(* time on the entry the scan before left.                                 *)
(***************************************************************************)
MaxScans == 2
NoScanIn == [undefined |-> TRUE]
ScanDocNames == DOMAIN ManifestDocs \cup DOMAIN ProseDocs
ScanPriors == {NoDiagnostics, Published(<<Diagnostic(0, 1, svgsNotValid)>>)}
ScanInputs ==
    [doc : DOMAIN ManifestDocs, info : {NoInfo}, prior : ScanPriors]
        \cup [doc : DOMAIN ProseDocs,
              info : {PackageJsonInfo(e, h) : e \in BOOLEAN, h \in BOOLEAN},
              prior : ScanPriors]
NoScanOut == [n |-> 0, entry |-> NoDiagnostics, first |-> NoDiagnostics,
              candidates |-> <<>>, tnps |-> <<>>]
IsManifestScan == scanIn # NoScanIn /\ scanIn.doc \in DOMAIN ManifestDocs
IsProseScan == scanIn # NoScanIn /\ scanIn.doc \in DOMAIN ProseDocs

InitScan ==
    /\ isOpen = [d \in Docs |-> FALSE]
    /\ text = [d \in Docs |-> CHOOSE t \in TextsOf[d] : TRUE]
    /\ folderToPackageJsonInfo = FreshSt.folderToPackageJsonInfo
    /\ packageJsonQ = <<>>
    /\ readmeQ = <<>>
    /\ timer = FALSE
    /\ diagnosticsCollection = FreshSt.diagnosticsCollection
    /\ timeouts = <<>>
    /\ sinceEnqueue = QuietPeriod
    /\ adds = FreshSt.adds
    /\ pc = "idle"
    /\ run = NoRun
    /\ suspended = <<>>
    /\ last = Did("init", NoDoc)
    /\ events = 0
    /\ urlIn = NoUrlIn
    /\ urlOut = NoDiagnostics
    /\ scanIn = NoScanIn
    /\ scanOut = NoScanOut

notScanVars == <<hostVars, linterVars, pc, run, suspended, last, urlIn, urlOut>>

\* a document with a text, and what is published for it so far
ScanPick ==
    /\ scanIn = NoScanIn \/ scanOut.n = MaxScans
    /\ scanIn' \in ScanInputs
    /\ scanOut' = [NoScanOut EXCEPT !.entry = scanIn'.prior]
    /\ UNCHANGED notScanVars

Scanned(entry, candidates, tnps) ==
    [n |-> scanOut.n + 1, entry |-> entry,
     first |-> IF scanOut.n = 0 THEN entry ELSE scanOut.first,
     candidates |-> candidates, tnps |-> tnps]

\* lintPackageJson on the manifest text
ScanManifest ==
    /\ IsManifestScan
    /\ scanOut.n < MaxScans
    /\ LET doc == ManifestDocs[scanIn.doc]
       IN  scanOut' = Scanned(lintPackageJsonText(scanOut.entry, doc),
                              IF infoOf(parseTree(doc.tree)).isExtension
                              THEN manifestCandidates(parseTree(doc.tree)) ELSE <<>>,
                              <<>>)
    /\ UNCHANGED <<scanIn, notScanVars>>

\* lintReadme on the prose text, the PackageJsonInfo of its folder known
ScanProse ==
    /\ IsProseScan
    /\ scanOut.n < MaxScans
    /\ LET doc == ProseDocs[scanIn.doc]
           ext == scanIn.info.isExtension
       IN  scanOut' = Scanned(lintReadmeText(scanOut.entry, doc, scanIn.info),
                              IF ext THEN proseCandidates(doc) ELSE <<>>,
                              IF ext THEN toTokensAndPositions(doc.text, doc.tokens,
                                                               0, Len(doc.text))
                              ELSE <<>>)
    /\ UNCHANGED <<scanIn, notScanVars>>

NextScan == ScanPick \/ ScanManifest \/ ScanProse

SpecScan == InitScan /\ [][NextScan]_vars

(***************************************************************************)
(* Properties of the URL rules (checked under SpecUrl)                     *)
(***************************************************************************)
\* what the call added to the array it was given
UrlAdded == SubSeq(urlOut.list, Len(urlIn.prior) + 1, Len(urlOut.list))
Messages(ds) == [i \in 1..Len(ds) |-> ds[i].message]
HasSuffix(s, suffix) ==
    /\ Len(s) >= Len(suffix)
    /\ SubSeq(s, Len(s) - Len(suffix) + 1, Len(s)) = suffix
UrlSchemeLower == toLowerCase(urlIn.uri.scheme)
\* the path ends in .svg and the host is not an allowed badge provider,
\* both compared case-insensitively
UrlSvgRefused ==
    /\ HasSuffix(toLowerCase(urlIn.uri.path), StrDotSvg)
    /\ \A i \in 1..Len(urlIn.providers) :
          toLowerCase(urlIn.providers[i]) # toLowerCase(urlIn.uri.authority)
UrlDataCall == urlOut.set /\ UrlSchemeLower = StrData

\* C8 as stated: a URL whose scheme is data yields exactly one issue,
\* DataUrlForbidden, and never InsecureScheme.
C8_DataExactlyOne ==
    UrlDataCall => Messages(UrlAdded) = <<dataUrlsNotValid>>

\* C8 as amended: a URL whose scheme is data yields DataUrlForbidden exactly
\* once and never InsecureScheme; it is the only issue unless the path ends
\* in .svg and the authority is not allow-listed, and then SvgDisallowed
\* follows it.
C8_DataOnceNeverInsecure ==
    UrlDataCall =>
        Messages(UrlAdded) = IF UrlSvgRefused THEN <<dataUrlsNotValid, svgsNotValid>>
                             ELSE <<dataUrlsNotValid>>

\* a data URL whose path ends in .svg has been validated: two issues
C8_Witness ==
    /\ UrlDataCall
    /\ Messages(UrlAdded) = <<dataUrlsNotValid, svgsNotValid>>

\* C9: the validator's output is the given array followed by the issues of
\* four independent rules, in this order, each firing iff its own condition
\* holds, all with the range of the URL.
C9_FourIndependentRules ==
    urlOut.set =>
        LET at(message) == <<Diagnostic(urlIn.begin, urlIn.end, message)>>
            insecure == UrlSchemeLower # <<>> /\ UrlSchemeLower # StrHttps
                           /\ UrlSchemeLower # StrData
            data     == UrlSchemeLower = StrData
            relative == UrlSchemeLower = <<>> /\ ~urlIn.hasHttpsRepository
        IN  urlOut.list =
                urlIn.prior
                \o (IF insecure THEN at("InsecureScheme") ELSE <<>>)
                \o (IF data THEN at("DataUrlForbidden") ELSE <<>>)
                \o (IF relative THEN at("RelativeRequiresSecureRepo") ELSE <<>>)
                \o (IF UrlSvgRefused THEN at("SvgDisallowed") ELSE <<>>)

\* an http URL of an .SVG on a host that is not allow-listed was validated
\* on top of an earlier entry: InsecureScheme and SvgDisallowed were added
C9_Witness ==
    /\ urlOut.set
    /\ urlIn.prior # <<>>
    /\ urlIn.uri.path = <<"/","b",".","S","V","G">>
    /\ Messages(UrlAdded) = <<"InsecureScheme", "SvgDisallowed">>

\* the issues of the three scheme rules among those the call added
SchemeMessages == {httpsRequired, dataUrlsNotValid, relativeUrlRequiresHttpsRepository}
UrlSchemeIssues == {i \in 1..Len(UrlAdded) : UrlAdded[i].message \in SchemeMessages}

\* C20: the three scheme rules exclude one another: a URL gets at most one of
\* InsecureScheme, DataUrlForbidden and RelativeRequiresSecureRepo, so it
\* gets at most two issues (one scheme issue and SvgDisallowed).
C20_SchemeRulesExclusive ==
    urlOut.set =>
        /\ Cardinality(UrlSchemeIssues) <= 1
        /\ Len(UrlAdded) <= 2

\* a relative .svg URL in a manifest without a secure repository was
\* validated: one scheme issue and SvgDisallowed, two issues
C20_Witness ==
    /\ urlOut.set
    /\ UrlSchemeLower = <<>>
    /\ Cardinality(UrlSchemeIssues) = 1
    /\ Messages(UrlAdded) = <<relativeUrlRequiresHttpsRepository, svgsNotValid>>

(***************************************************************************)
(* Properties of the linter (checked under Spec)                           *)
(***************************************************************************)
Count(q, d) == Cardinality({i \in 1..Len(q) : q[i] = d})
\* the lint passes in progress, and the one that just ended
PassesInProgress ==
    Len(suspended) + (IF pc = "idle" THEN 0 ELSE 1)
KnownPasses ==
    Range(suspended) \cup (IF run = NoRun THEN {} ELSE {run})
        \cup (IF last.ended = "no" THEN {} ELSE {last.pass})

C2_TrailingDebounce ==
    last.scanQuiet # -1 => last.scanQuiet >= QuietPeriod

\* C3: right after a close event the document is in neither pending set and
\* has no published issues.
C3_CloseCancels ==
    last.op = "close" =>
        /\ last.doc \notin Range(packageJsonQ)
        /\ last.doc \notin Range(readmeQ)
        /\ ~diagnosticsCollection[last.doc].set

\* C4: a lint pass that ends without an exception has taken every document
\* that was pending when the timeout fired out of its pending set and dealt
\* with it; a closed or non-extension document does not stop the others.
C4_QueueDraining ==
    last.ended \in {"done", "return"} =>
        \A d \in last.pass.atFire :
            /\ d \in last.pass.proc
            /\ isOpen[d] => d \in Range(last.pass.scans)

\* C5: when the scan of one document throws, every other document that was
\* pending for that pass is still scanned.
C5_FailureIsolation ==
    last.ended = "threw" =>
        \A d \in last.pass.atFire \ {last.doc} : d \in Range(last.pass.scans)

\* C6: at most one lint pass is in progress at any time.
C6_OnePassAtATime == PassesInProgress <= 1

\* C7: when readPackageJsonInfo computes an info for a folder, the cache
\* entry of the folder becomes that info; if an entry existed and differs in
\* a field, every open README/changelog whose folder equals the folder
\* case-insensitively is in the prose pending set and a fresh timeout is
\* armed; if an entry existed and does not differ, nothing is enqueued.
InfoDiffers(old, new) ==
    \/ old.isExtension # new.isExtension
    \/ old.hasHttpsRepository # new.hasHttpsRepository
DependentReadmes(folder) ==
    {d \in Docs : /\ isOpen[d]
                  /\ IsReadme[d]
                  /\ toLowerCase(getUriFolder[d]) = toLowerCase(folder)}
C7_CacheInvalidation ==
    [][LET e == last'.computed
       IN  e # NoCompute =>
             /\ folderToPackageJsonInfo'[e.folder] = e.new
             /\ (e.old # NoInfo /\ InfoDiffers(e.old, e.new)) =>
                   /\ DependentReadmes(e.folder) \subseteq Range(readmeQ')
                   /\ DependentReadmes(e.folder) # {} =>
                         /\ timer'
                         /\ \E i \in DOMAIN timeouts' :
                               timeouts'[i].current /\ timeouts'[i].age = 0
             /\ (e.old # NoInfo /\ ~InfoDiffers(e.old, e.new)) =>
                   /\ readmeQ' = readmeQ
                   /\ timeouts' = timeouts]_vars

\* the manifest of /a was recomputed with a changed field while the
\* changelog of /A was open: the changelog is pending and the timer armed
C7_Witness ==
    /\ last.computed # NoCompute
    /\ last.computed.folder = getUriFolder["pa"]
    /\ last.computed.old # NoInfo
    /\ InfoDiffers(last.computed.old, last.computed.new)
    /\ isOpen["cA"]
    /\ "cA" \in Range(readmeQ)
    /\ timeouts # <<>>

\* C10: a scan whose PackageJsonInfo has isExtension = false publishes an
\* empty issue list for the document and raises no error.
C10_NonExtensionSuppression ==
    (last.scanQuiet # -1 /\ ~last.used.isExtension) =>
        /\ diagnosticsCollection[last.doc] = Published(<<>>)
        /\ last.ended # "threw"

\* the README, holding an image whose source does not parse, was scanned
\* with a non-extension info: an empty list is published, nothing is thrown
C10_Witness ==
    /\ last.scanQuiet # -1
    /\ ~last.used.isExtension
    /\ last.doc = "ra"
    /\ text["ra"] = "t2"
    /\ diagnosticsCollection["ra"] = Published(<<>>)

\* C18: an open document that is pending is always going to be scanned: no
\* state has an open document in packageJsonQ or readmeQ while no timeout is
\* pending and no lint pass is in progress.
C18_EventualScan ==
    \A d \in Range(packageJsonQ) \cup Range(readmeQ) :
        isOpen[d] => (timeouts # <<>> \/ PassesInProgress > 0)

\* C19: no issue list is published for a closed document: whatever the
\* interleaving of close events and lint passes, the published issues of a
\* closed document stay cleared (no issue is shown for it).
C19_NoPublicationForClosed ==
    \A d \in Docs : ~isOpen[d] => diagnosticsCollection[d].list = <<>>

\* the scan of document d as it is now, with the PackageJsonInfo given
ScanOf(d, t, info) ==
    IF IsPackageJson[d] THEN scanPackageJson(parseTree(ManifestTexts[t]), info)
    ELSE scanReadme(t, info)
Infos == {PackageJsonInfo(e, h) : e \in BOOLEAN, h \in BOOLEAN}
\* the issue lists that one scan of one of the texts of d can give
WholeScans ==
    [d \in Docs |->
        {ScanOf(d, x[1], x[2]).diagnostics :
            x \in {y \in TextsOf[d] \X Infos :
                      /\ IsPackageJson[d] => y[2] = infoOf(parseTree(ManifestTexts[y[1]]))
                      /\ ~ScanOf(d, y[1], y[2]).threw}}]
\* the published list of d is the whole result of one scan of one of its texts
WholeScan(d) == diagnosticsCollection[d].list \in WholeScans[d]

\* C14: a scan publishes its whole issue list in one step that replaces the
\* list published before.  The published list of a document is always absent
\* or exactly the result of one scan; a step changes the entry of at most
\* the document it is about, to the complete result of the scan it made (or
\* to absent, on close), and leaves the lists of all other documents alone.
C14_AtomicReplacement ==
    /\ [](\A d \in Docs : diagnosticsCollection[d].set => WholeScan(d))
    /\ [][\A d \in Docs :
            diagnosticsCollection'[d] # diagnosticsCollection[d] =>
                /\ d = last'.doc
                /\ \/ last'.op = "close" /\ diagnosticsCollection'[d] = NoDiagnostics
                   \/ /\ last'.scanQuiet # -1
                      /\ ~ScanOf(d, text[d], last'.used).threw
                      /\ diagnosticsCollection'[d] =
                            Published(ScanOf(d, text[d], last'.used).diagnostics)]_vars

\* a scan has just published issues for one document while another document
\* has issues published by an earlier scan
C14_Witness ==
    /\ last.scanQuiet # -1
    /\ last.ended # "threw"
    /\ diagnosticsCollection[last.doc].list # <<>>
    /\ \E d \in Docs \ {last.doc} : diagnosticsCollection[d].list # <<>>

\* the lint pass of the latest step, when the step scanned a document
ScanPass == IF last.ended = "no" THEN run ELSE last.pass
ProseScan == last.op \in {"lintReadme", "resume"} /\ last.scanQuiet # -1
ManifestsOf(folder) == {m \in Docs : IsPackageJson[m] /\ getUriFolder[m] = folder}

\* C17: within one lint pass the pending manifests are processed before any
\* prose document: when a pass scans a README or changelog, every manifest
\* that was pending when the pass began has been processed by the pass, and
\* if the manifest of the document's folder was pending with it, the scan
\* uses a PackageJsonInfo derived from the manifest text since the pass
\* began, never a value cached before.
C17_ManifestBeforeProse ==
    ProseScan =>
        LET folder == getUriFolder[last.doc]
        IN  /\ \A m \in ScanPass.atFire : IsPackageJson[m] => m \in ScanPass.proc
            /\ (last.doc \in ScanPass.atFire /\ ManifestsOf(folder) \cap ScanPass.atFire # {})
                    => last.used \in ScanPass.seen[folder]

\* after two events a pass began with the manifest and the README of one
\* folder pending, scanned the manifest, and has scanned the README with
\* the PackageJsonInfo of an extension with a secure repository
C17_Witness ==
    /\ ProseScan
    /\ last.doc \in ScanPass.atFire
    /\ ManifestsOf(getUriFolder[last.doc]) \cap ScanPass.atFire # {}
    /\ \E i \in 1..Len(ScanPass.scans) : IsPackageJson[ScanPass.scans[i]]
    /\ last.used \in ScanPass.seen[getUriFolder[last.doc]]
    /\ last.used = PackageJsonInfo(TRUE, TRUE)
    /\ events = MaxEvents

(***************************************************************************)
(* Properties of the scanners (checked under SpecScan)                     *)
(***************************************************************************)
ScanText ==
    IF IsManifestScan THEN ManifestDocs[scanIn.doc].text ELSE ProseDocs[scanIn.doc].text
ScanDone == scanIn # NoScanIn /\ scanOut.n >= 1
ContentOf(token) ==
    IF token.type = "image" /\ token.src # <<>> THEN token.src ELSE token.content

\* C11: every published issue has a range inside the text that was scanned:
\* 0 <= begin <= end <= length of the text, for the manifest scan and for
\* the prose scan (Markdown images and raw img tags).
C11_IssueRangeInvariant ==
    ScanDone =>
        \A i \in 1..Len(scanOut.entry.list) :
            /\ 0 <= scanOut.entry.list[i].begin
            /\ scanOut.entry.list[i].begin <= scanOut.entry.list[i].end
            /\ scanOut.entry.list[i].end <= Len(ScanText)

\* the characters of the string literal whose first character is at offset
\* b: up to its closing quotation mark, or to the end of its line
LiteralContent(txt, b) == substring(txt, b, FirstOf(txt, {Quote, Newline}, b))
\* the string nodes the manifest scan looks at: icon, then the url of each
\* element of badges when badges is an array
StringNodesOf(tree) ==
    (IF tree.icon.type = "string" THEN <<tree.icon>> ELSE <<>>)
    \o (IF tree.badges.type = "array"
        THEN SelectSeq(tree.badges.children, LAMBDA u : u.type = "string")
        ELSE <<>>)

\* C12: in an extension manifest the string-typed icon node and the
\* string-typed url node of each badges element yield one candidate each,
\* with the range [offset + 1, offset + length - 1], which is exactly the
\* literal value without its quotation marks; other nodes yield none.  The
\* manifest {"engines":{"vscode":"^1.0.0"},"icon":"http://x.com/a.png"}
\* yields exactly one issue, InsecureScheme, on http://x.com/a.png.
C12_ManifestCandidates ==
    (ScanDone /\ IsManifestScan) =>
        LET doc   == ManifestDocs[scanIn.doc]
            nodes == StringNodesOf(doc.tree)
            cs    == scanOut.candidates
        IN  /\ infoOf(doc.tree).isExtension => Len(cs) = Len(nodes)
            /\ ~infoOf(doc.tree).isExtension => cs = <<>>
            /\ \A i \in 1..Len(cs) :
                  /\ cs[i].begin = nodes[i].offset + 1
                  /\ cs[i].end = nodes[i].offset + nodes[i].length - 1
                  /\ doc.text[cs[i].begin] = Quote
                  /\ cs[i].begin <= cs[i].end
                  /\ substring(doc.text, cs[i].begin, cs[i].end)
                        = LiteralContent(doc.text, cs[i].begin)
            /\ scanIn.doc = "j1" =>
                  /\ Messages(scanOut.entry.list) = <<httpsRequired>>
                  /\ substring(doc.text, scanOut.entry.list[1].begin,
                               scanOut.entry.list[1].end)
                        = <<"h","t","t","p",":","/","/","x",".","c","o","m","/","a",".","p","n","g">>

\* C13: scanning the same text twice with the same PackageJsonInfo publishes
\* the same issue list (order, kinds, ranges): what the first scan left
\* published does not change the result of the second.
C13_ScanIdempotent ==
    (scanIn # NoScanIn /\ scanOut.n >= 2) => scanOut.entry = scanOut.first

\* a prose text with a relative .svg image was scanned twice on top of an
\* earlier publication: two issues, both times
C13_Witness ==
    /\ IsProseScan
    /\ scanOut.n = 2
    /\ scanIn.prior.list # <<>>
    /\ Messages(scanOut.first.list) = <<relativeUrlRequiresHttpsRepository, svgsNotValid>>
    /\ scanOut.entry = scanOut.first

\* C15: within one nesting level the shared cursor (begin) never decreases
\* from token to token, whether a block token's line range or a content
\* search moved it.
C15_MonotonicCursor ==
    ScanDone =>
        \A i \in 1..Len(scanOut.tnps) : scanOut.tnps[i].cursor <= scanOut.tnps[i].next

\* every token of the tree, at every depth
RECURSIVE allTokens(_)
allTokens(tokens) ==
    IF tokens = <<>> THEN <<>>
    ELSE <<Head(tokens)>> \o allTokens(Head(tokens).children) \o allTokens(Tail(tokens))
\* the first occurrence of the content at or after the cursor ends inside
\* the scope
FoundInScope(txt, e) ==
    LET content == ContentOf(e.token)
    IN  /\ content # <<>>
        /\ \E k \in e.cursor..Len(txt) :
              /\ OccursAt(txt, content, k)
              /\ \A j \in e.cursor..(k - 1) : ~OccursAt(txt, content, j)
              /\ k + Len(content) <= e.hi

\* C16: every token of every depth is in the flat output exactly once with
\* begin <= end.  A token without a line range gets the first occurrence of
\* its content at or after the cursor when that occurrence ends within the
\* inherited end, and the cursor moves to its end; otherwise it gets the
\* zero-width span at the cursor and the cursor stays.  The span of such a
\* token lies within the begin and end of its enclosing scope.
C16_TokenSpans ==
    (ScanDone /\ IsProseScan /\ scanIn.info.isExtension) =>
        LET doc  == ProseDocs[scanIn.doc]
            tnps == scanOut.tnps
            all  == allTokens(doc.tokens)
        IN  /\ Len(tnps) = Len(all)
            /\ \A t \in Range(all) :
                  Cardinality({i \in 1..Len(tnps) : tnps[i].token = t})
                      = Cardinality({i \in 1..Len(all) : all[i] = t})
            /\ \A i \in 1..Len(tnps) :
                  LET e == tnps[i]
                      content == ContentOf(e.token)
                  IN  /\ e.begin <= e.end
                      /\ e.token.map = NoMap =>
                            /\ e.lo <= e.begin /\ e.end <= e.hi
                            /\ IF FoundInScope(doc.text, e)
                               THEN /\ OccursAt(doc.text, content, e.begin)
                                    /\ e.begin >= e.cursor
                                    /\ \A j \in e.cursor..(e.begin - 1) :
                                          ~OccursAt(doc.text, content, j)
                                    /\ e.end = e.begin + Len(content)
                                    /\ e.next = e.end
                               ELSE /\ e.begin = e.cursor
                                    /\ e.end = e.cursor
                                    /\ e.next = e.cursor

\* a prose text was mapped in which one token was found by the content
\* search and another, whose content occurs only beyond the end of its
\* scope, got the zero-width span at the cursor
C16_Witness ==
    /\ ScanDone /\ IsProseScan
    /\ \E i \in 1..Len(scanOut.tnps) :
          /\ scanOut.tnps[i].token.map = NoMap
          /\ scanOut.tnps[i].begin < scanOut.tnps[i].end
    /\ \E i \in 1..Len(scanOut.tnps) :
          LET e == scanOut.tnps[i]
          IN  /\ e.token.map = NoMap
              /\ e.begin = e.end
              /\ ContentOf(e.token) # <<>>
              /\ indexOf(ScanText, ContentOf(e.token), e.cursor) # -1

=============================================================================
